---- MODULE Spec2Model ----
(***************************************************************************)
(* MongoStorage (src/lib/storage.js): a cache storage adapter that keeps   *)
(* value documents and reference documents in one MongoDB collection.      *)
(*                                                                         *)
(* Strings are sequences of one-character strings, so that lengths,        *)
(* prefixes and wildcard matching are computed and not assumed.  Dates are *)
(* integer milliseconds.  A backend call that fails is rejected by the     *)
(* store without being applied; the unordered bulkWrite fails per          *)
(* operation.  The store's regular-expression dot is taken to match any    *)
(* character.                                                              *)
(***************************************************************************)
EXTENDS Integers, Sequences, FiniteSets, TLC

VARIABLES
  collection,  \* the MongoDB collection: a function from _id to document
  now,         \* Date.now(), in milliseconds
  last,        \* the most recent call of the public interface and its outcome
  lastSet,     \* per raw key, the arguments of the most recent set() on it
  faults,      \* number of backend calls that have failed so far
  inflight,    \* per concurrent caller, its call and the backend step it is at
  instance,    \* what the constructor gave: a usable storage, or none
  log,         \* whether the constructor was given a logger (options.log)
  reaped,      \* number of documents the TTL reaper has deleted so far
  steps        \* number of calls made so far

vars ==
  <<collection, now, last, lastSet, faults, inflight, instance, log, reaped,
    steps>>

----------------------------------------------------------------------------
(* Bounds of the model *)

MaxSteps == 3          \* calls of the public interface in one run
MaxNow == 1500         \* the clock stops advancing here (ms)
MaxFaults == 1         \* failing backend calls in one run
MaxRefs == 2           \* references passed to one set call
MaxList == 2           \* entries of a list passed to invalidate
MaxProcs == 3          \* concurrent callers, each making one call

TickMs == 750          \* granularity of the clock (ms)

----------------------------------------------------------------------------
(* Strings *)

Repeat(c, n) == [i \in 1..n |-> c]

Range(s) == {s[i] : i \in 1..Len(s)}

IsPrefixOf(p, s) == Len(p) <= Len(s) /\ SubSeq(s, 1, Len(p)) = p

----------------------------------------------------------------------------
(* Key codec: constructor fields, _hashKey, _getValueKey, _getReferenceKey *)

valuePrefix == <<"v", ":">>

referencePrefix == <<"r", ":">>

maxKeyLength == 200

HexLen == 64           \* length of a SHA-256 digest in hexadecimal

\* A raw string one character longer than maxKeyLength, usable both as a
\* cache key and as a reference name.
LongStr == Repeat("k", maxKeyLength + 1)

\* crypto.createHash('sha256').update(key).digest('hex'): a fixed function
\* of the input whose result is HexLen hexadecimal characters; distinct
\* inputs of the model get distinct digests.
sha256hex(s) ==
  CASE s = LongStr -> Repeat("d", HexLen)
    [] OTHER       -> Repeat("f", HexLen)

\* A limit that leaves out the length maxKeyLength itself
_hashKeyBelow(key) ==
  IF Len(key) < maxKeyLength THEN key ELSE sha256hex(key)

_hashKey(key) ==
  IF Len(key) <= maxKeyLength THEN key ELSE sha256hex(key)

\* A value id built from the raw key, without _hashKey
_getValueKeyRaw(key) == valuePrefix \o key

_getValueKey(key) == valuePrefix \o _hashKey(key)

\* A reference id built with the prefix of the values
_getReferenceKeyShared(reference) == valuePrefix \o _hashKey(reference)

_getReferenceKey(reference) == referencePrefix \o _hashKey(reference)

----------------------------------------------------------------------------
(* Inputs of the model *)

KeyA == <<"a">>

\* A raw string of exactly maxKeyLength characters, usable both as a cache
\* key and as a reference name.
EdgeStr == Repeat("e", maxKeyLength)

RefX12 == <<"x", "1", "2">>

\* Raw cache keys: a short key, a long key, and the short key that is
\* spelled like the long key's digest.
Keys == {KeyA, LongStr, sha256hex(LongStr)}

\* Reference names: a short name, a long name and the short name that is
\* spelled like the long name's digest.
Refs == {RefX12, LongStr, sha256hex(LongStr)}

\* Every raw key of the model
AllKeys == Keys \cup {EdgeStr}

\* A reference name with a metacharacter of regular expressions
RefDot == <<"x", ".", "2">>

\* Wildcard patterns: *  and  x*1
Patterns == {<<"*">>, <<"x", "*", "1">>}

Payloads == {1, 2}

undefined == 0         \* what get returns for a miss

TTLs == {-1, 0, 1, 2}

null == -1             \* no expiration date

----------------------------------------------------------------------------
(* Expiration policy *)

_getExpirationDate(ttl, t) ==
  IF ttl <= 0 THEN null ELSE t + ttl * 1000

----------------------------------------------------------------------------
(* Documents *)

SetField(doc, f, v) ==
  [x \in DOMAIN doc \cup {f} |-> IF x = f THEN v ELSE doc[x]]

UnsetField(doc, f) == [x \in DOMAIN doc \ {f} |-> doc[x]]

HasExpireAt(doc) == "expireAt" \in DOMAIN doc

\* The document set() builds: expireAt is present only when there is an
\* expiration date.
ValueDoc(value, t, expireAt) ==
  IF expireAt # null
    THEN [value |-> value, createdAt |-> t, expireAt |-> expireAt]
    ELSE [value |-> value, createdAt |-> t]

----------------------------------------------------------------------------
(* The capabilities of the collection that the adapter uses *)

replaceOne(c, id, doc) ==
  [x \in DOMAIN c \cup {id} |-> IF x = id THEN doc ELSE c[x]]

deleteOne(c, id) == [x \in DOMAIN c \ {id} |-> c[x]]

deleteMany(c, ids) == [x \in DOMAIN c \ ids |-> c[x]]

countDocuments(c, id) == IF id \in DOMAIN c THEN 1 ELSE 0

\* A $set of the array field to the one key
setKeys(keys, key) == <<key>>

\* A $push: the key is appended whether or not it is listed
push(keys, key) == Append(keys, key)

\* $addToSet on an array field
addToSet(keys, key) ==
  IF key \in Range(keys) THEN keys ELSE Append(keys, key)

\* An upsert that keeps the later of the stored and the new expireAt
upsertReferenceMax(c, id, key, t, expireAt) ==
  LET old == IF id \in DOMAIN c THEN c[id]
                                ELSE [keys |-> <<>>, createdAt |-> t]
      oldKeys == IF "keys" \in DOMAIN old THEN old.keys ELSE <<>>
      withKey == SetField(old, "keys", addToSet(oldKeys, key))
      latest == IF HasExpireAt(old) /\ old.expireAt > expireAt
                  THEN old.expireAt ELSE expireAt
      new == IF expireAt # null THEN SetField(withKey, "expireAt", latest)
                                ELSE withKey
  IN  replaceOne(c, id, new)

\* updateOne({_id}, {$addToSet: {keys}, $setOnInsert: {createdAt},
\*           [$set: {expireAt}]}, {upsert: true})
upsertReference(c, id, key, t, expireAt) ==
  LET old == IF id \in DOMAIN c THEN c[id]
                                ELSE [keys |-> <<>>, createdAt |-> t]
      oldKeys == IF "keys" \in DOMAIN old THEN old.keys ELSE <<>>
      withKey == SetField(old, "keys", addToSet(oldKeys, key))
      new == IF expireAt # null THEN SetField(withKey, "expireAt", expireAt)
                                ELSE withKey
  IN  replaceOne(c, id, new)

\* An update that replaces the document by the update's fields
updateOneReplaced(c, id, expireAt) ==
  IF id \in DOMAIN c
    THEN [c EXCEPT ![id] = [expireAt |-> expireAt]]
    ELSE c

\* The update with upsert: a missing document is created
updateOneUpsert(c, id, expireAt) ==
  IF id \in DOMAIN c
    THEN [c EXCEPT ![id] = SetField(c[id], "expireAt", expireAt)]
    ELSE replaceOne(c, id, [expireAt |-> expireAt])

\* updateOne({_id}, {$set: {expireAt}}), no upsert
updateOneSet(c, id, expireAt) ==
  IF id \in DOMAIN c
    THEN [c EXCEPT ![id] = SetField(c[id], "expireAt", expireAt)]
    ELSE c

\* updateOne({_id}, {$unset: {expireAt: ''}}), no upsert
updateOneUnset(c, id) ==
  IF id \in DOMAIN c
    THEN [c EXCEPT ![id] = UnsetField(c[id], "expireAt")]
    ELSE c

(* Regular expressions, as far as _invalidateByPattern builds them: a      *)
(* sequence of tokens, each a literal character or ".*".                   *)

Lit(ch) == [kind |-> "lit", ch |-> ch]

DotStar == [kind |-> "dotstar", ch |-> "*"]

\* An unescaped "." that no "*" follows: any one character
AnyChar == [kind |-> "any", ch |-> "."]

\* The characters that pattern.replace(/[.+?^${}()|[\]\\]/g, '\\$&') escapes
Metacharacters ==
  {".", "+", "?", "^", "$", "{", "}", "(", ")", "|", "[", "]", "\\"}

\* A conversion that escapes nothing
escapeNothing(s) == s

\* Every metacharacter of s gets a backslash in front of it.
RECURSIVE escapeMeta(_)
escapeMeta(s) ==
  IF s = <<>> THEN <<>>
  ELSE (IF Head(s) \in Metacharacters THEN <<"\\", Head(s)>> ELSE <<Head(s)>>)
         \o escapeMeta(Tail(s))

\* .replace(/\*/g, '.*')
RECURSIVE replaceStars(_)
replaceStars(s) ==
  IF s = <<>> THEN <<>>
  ELSE (IF Head(s) = "*" THEN <<".", "*">> ELSE <<Head(s)>>)
         \o replaceStars(Tail(s))

\* How the store reads the source of an expression: a backslash makes the
\* next character a literal, ".*" is any run of characters, a "." alone is
\* any one character, and any other character stands for itself (of the
\* operators only "." and ".*" occur unescaped in the sources built here).
RECURSIVE RegExp(_)
RegExp(src) ==
  IF src = <<>> THEN <<>>
  ELSE IF Head(src) = "\\" /\ Len(src) >= 2
    THEN <<Lit(src[2])>> \o RegExp(SubSeq(src, 3, Len(src)))
  ELSE IF Head(src) = "." /\ Len(src) >= 2 /\ src[2] = "*"
    THEN <<DotStar>> \o RegExp(SubSeq(src, 3, Len(src)))
  ELSE IF Head(src) = "."
    THEN <<AnyChar>> \o RegExp(Tail(src))
  ELSE <<Lit(Head(src))>> \o RegExp(Tail(src))

\* The matching an expression ending in "$" would do: re[i..] matches the
\* whole of s[j..].
RECURSIVE MatchFromToEnd(_, _, _, _)
MatchFromToEnd(re, i, s, j) ==
  IF i > Len(re) THEN j > Len(s)
  ELSE IF re[i].kind = "lit"
    THEN j <= Len(s) /\ s[j] = re[i].ch /\ MatchFromToEnd(re, i + 1, s, j + 1)
  ELSE IF re[i].kind = "any"
    THEN j <= Len(s) /\ MatchFromToEnd(re, i + 1, s, j + 1)
    ELSE \E j2 \in j..(Len(s) + 1) : MatchFromToEnd(re, i + 1, s, j2)

\* Whether re[i..] matches some prefix of s[j..]: the expression is tied to
\* the start of the string by "^" and to nothing at its end.
RECURSIVE MatchFrom(_, _, _, _)
MatchFrom(re, i, s, j) ==
  IF i > Len(re) THEN TRUE
  ELSE IF re[i].kind = "lit"
    THEN j <= Len(s) /\ s[j] = re[i].ch /\ MatchFrom(re, i + 1, s, j + 1)
  ELSE IF re[i].kind = "any"
    THEN j <= Len(s) /\ MatchFrom(re, i + 1, s, j + 1)
    ELSE \E j2 \in j..(Len(s) + 1) : MatchFrom(re, i + 1, s, j2)

\* find({_id: {$regex}}): the ids of the matching documents
find(c, re) == {id \in DOMAIN c : MatchFrom(re, 1, id, 1)}

----------------------------------------------------------------------------
(* The handlers, as functions of the collection.  f is the number of the   *)
(* backend call that fails in this handler (0: none).  The result is the   *)
(* collection afterwards and whether the failing call was reached.         *)

Res(c, hit) == [c |-> c, hit |-> hit]

\* One updateOne of the bulkWrite per reference; the operations in failedOps
\* are the ones the store rejects.
RECURSIVE bulkWrite(_, _, _, _, _, _)
bulkWrite(c, key, references, expireAt, t, failedOps) ==
  IF references = {} THEN c
  ELSE LET reference == CHOOSE r \in references : TRUE
           c1 == IF reference \in failedOps THEN c
                 ELSE upsertReference(c, _getReferenceKey(reference), key,
                                      t, expireAt)
       IN  bulkWrite(c1, key, references \ {reference}, expireAt, t,
                     failedOps)

_storeReferences(c, key, references, ttl, t, failedOps) ==
  bulkWrite(c, key, references, _getExpirationDate(ttl, t), t, failedOps)

\* A value write that merges the fields into the stored document
\* (updateOne with $set) instead of replacing it.
writeValueMerged(c, valueKey, doc) ==
  IF valueKey \in DOMAIN c
    THEN [c EXCEPT ![valueKey] =
            [x \in DOMAIN c[valueKey] \cup DOMAIN doc |->
               IF x \in DOMAIN doc THEN doc[x] ELSE c[valueKey][x]]]
    ELSE replaceOne(c, valueKey, doc)

\* The value write of set(): a full replace of the document, upserted.
writeValue(c, valueKey, doc) == replaceOne(c, valueKey, doc)

\* A set that undoes the value write when the reference writes fail
setRolledBack(c, key, value, ttl, references, t, f, failedOps) ==
  LET valueKey == _getValueKey(key)
      expireAt == _getExpirationDate(ttl, t)
      doc == ValueDoc(value, t, expireAt)
      c1 == writeValue(c, valueKey, doc)
  IN  IF f = 1 \/ (f = 2 /\ references # {}) THEN Res(c, TRUE)
      ELSE IF references # {}
        THEN Res(_storeReferences(c1, key, references, ttl, t, {}), FALSE)
        ELSE Res(c1, FALSE)

set(c, key, value, ttl, references, t, f, failedOps) ==
  LET valueKey == _getValueKey(key)
      expireAt == _getExpirationDate(ttl, t)
      doc == ValueDoc(value, t, expireAt)
      c1 == writeValue(c, valueKey, doc)
  IN  IF f = 1 THEN Res(c, TRUE)
      ELSE IF references # {}
        THEN Res(_storeReferences(c1, key, references, ttl, t,
                                  IF f = 2 THEN failedOps ELSE {}),
                 f = 2)
        ELSE Res(c1, FALSE)

get(c, key) ==
  LET valueKey == _getValueKey(key)
  IN  IF valueKey \in DOMAIN c THEN c[valueKey].value ELSE undefined

remove(c, key, f) ==
  IF f = 1 THEN Res(c, TRUE)
  ELSE Res(deleteOne(c, _getValueKey(key)), FALSE)

\* An invalidation that deletes the reference record also when the delete
\* of the values failed
_invalidateByReferenceAnyway(c, reference, f) ==
  LET referenceKey == _getReferenceKey(reference)
  IN  IF f = 1 THEN Res(c, TRUE)
      ELSE IF referenceKey \notin DOMAIN c \/ "keys" \notin DOMAIN c[referenceKey]
        THEN Res(c, FALSE)
      ELSE LET keys == c[referenceKey].keys
               valueKeys == {_getValueKey(keys[i]) : i \in 1..Len(keys)}
               c1 == IF valueKeys # {} THEN deleteMany(c, valueKeys) ELSE c
           IN  IF f = 2 /\ valueKeys # {}
                 THEN Res(deleteOne(c, referenceKey), TRUE)
               ELSE IF f = 3 THEN Res(c1, TRUE)
               ELSE Res(deleteOne(c1, referenceKey), FALSE)

\* An invalidation that deletes under the prefixed raw keys, without
\* hashing the long ones
_invalidateByReferenceRaw(c, reference, f) ==
  LET referenceKey == _getReferenceKey(reference)
  IN  IF f = 1 THEN Res(c, TRUE)
      ELSE IF referenceKey \notin DOMAIN c \/ "keys" \notin DOMAIN c[referenceKey]
        THEN Res(c, FALSE)
      ELSE LET keys == c[referenceKey].keys
               valueKeys == {_getValueKeyRaw(keys[i]) : i \in 1..Len(keys)}
               c1 == IF valueKeys # {} THEN deleteMany(c, valueKeys) ELSE c
           IN  IF f = 2 /\ valueKeys # {} THEN Res(c, TRUE)
               ELSE IF f = 3 THEN Res(c1, TRUE)
               ELSE Res(deleteOne(c1, referenceKey), FALSE)

_invalidateByReference(c, reference, f) ==
  LET referenceKey == _getReferenceKey(reference)
  IN  IF f = 1 THEN Res(c, TRUE)
      ELSE IF referenceKey \notin DOMAIN c \/ "keys" \notin DOMAIN c[referenceKey]
        THEN Res(c, FALSE)
      ELSE LET keys == c[referenceKey].keys
               valueKeys == {_getValueKey(keys[i]) : i \in 1..Len(keys)}
               c1 == IF valueKeys # {} THEN deleteMany(c, valueKeys) ELSE c
           IN  IF f = 2 /\ valueKeys # {} THEN Res(c, TRUE)
               ELSE IF f = 3 THEN Res(c1, TRUE)
               ELSE Res(deleteOne(c1, referenceKey), FALSE)

\* The expression without the reference prefix
regexPatternUnprefixed(pattern) ==
  [i \in 1..Len(pattern) |->
     IF pattern[i] = "*" THEN DotStar ELSE Lit(pattern[i])]

\* '^' + referencePrefix + pattern with the metacharacters escaped and every
\* '*' replaced by '.*': every character other than '*' stands for itself.
regexPattern(pattern) ==
  RegExp(referencePrefix \o replaceStars(escapeMeta(pattern)))

_invalidateByPattern(c, pattern, f) ==
  LET referenceIds == find(c, regexPattern(pattern))
      allKeys == UNION {IF "keys" \in DOMAIN c[id] THEN Range(c[id].keys)
                                                   ELSE {} : id \in referenceIds}
      valueKeys == {_getValueKey(key) : key \in allKeys}
      c1 == IF allKeys # {} THEN deleteMany(c, valueKeys) ELSE c
  IN  IF f = 1 THEN Res(c, TRUE)
      ELSE IF referenceIds = {} THEN Res(c, FALSE)
      ELSE IF f = 2 /\ allKeys # {} THEN Res(c, TRUE)
      ELSE IF f = 3 THEN Res(c1, TRUE)
      ELSE Res(deleteMany(c1, referenceIds), FALSE)

\* The body of the loop of invalidate(): the routing of one entry.
invalidateEntry(c, reference, f) ==
  IF "*" \in Range(reference)
    THEN _invalidateByPattern(c, reference, f)
    ELSE _invalidateByReference(c, reference, f)

\* A loop that an entry's backend failure ends.
RECURSIVE invalidateFrom(_, _, _, _, _)
afterEntryOrStop(r, refs, i, fi, f) ==
  IF r.hit THEN r ELSE invalidateFrom(r.c, refs, i + 1, fi, f)

\* What the loop does after the entry at position i has been processed with
\* result r: go on with the next entry.
afterEntry(r, refs, i, fi, f) ==
  LET rest == invalidateFrom(r.c, refs, i + 1, fi, f)
  IN  Res(rest.c, r.hit \/ rest.hit)

\* for (const reference of refs) from position i on; the failing backend
\* call is call f of the entry at position fi.
invalidateFrom(c, refs, i, fi, f) ==
  IF i > Len(refs) THEN Res(c, FALSE)
  ELSE afterEntry(invalidateEntry(c, refs[i], IF i = fi THEN f ELSE 0),
                  refs, i, fi, f)

\* Array.isArray(references) ? references : [references]
asArray(references) ==
  IF references.isArray THEN references.arr ELSE <<references.str>>

invalidate(c, references, fi, f) ==
  invalidateFrom(c, asArray(references), 1, fi, f)

\* A filter that selects the value documents only: ^v:
clearFilterValues(id) == IsPrefixOf(valuePrefix, id)

\* A filter that selects every document of the collection
clearFilterAll(id) == TRUE

\* The filter of clear(): ^(v:|r:)
clearFilter(id) == IsPrefixOf(valuePrefix, id) \/ IsPrefixOf(referencePrefix, id)

clear(c, f) ==
  IF f = 1 THEN Res(c, TRUE)
  ELSE Res(deleteMany(c, {id \in DOMAIN c : clearFilter(id)}), FALSE)

refresh(c, key, ttl, t, f) ==
  LET valueKey == _getValueKey(key)
      expireAt == _getExpirationDate(ttl, t)
  IN  IF f = 1 THEN Res(c, TRUE)
      ELSE IF expireAt # null
        THEN Res(updateOneSet(c, valueKey, expireAt), FALSE)
        ELSE Res(updateOneUnset(c, valueKey), FALSE)

\* A remaining time that is not clamped at 0 (no Math.max)
getTTLUnclamped(c, key, t) ==
  LET valueKey == _getValueKey(key)
  IN  IF valueKey \notin DOMAIN c \/ ~HasExpireAt(c[valueKey]) THEN 0
      ELSE (c[valueKey].expireAt - t) \div 1000

\* A remaining time rounded up to whole seconds (Math.ceil)
getTTLRoundedUp(c, key, t) ==
  LET valueKey == _getValueKey(key)
  IN  IF valueKey \notin DOMAIN c \/ ~HasExpireAt(c[valueKey]) THEN 0
      ELSE LET ttl == (c[valueKey].expireAt - t + 999) \div 1000
           IN  IF ttl > 0 THEN ttl ELSE 0

getTTL(c, key, t) ==
  LET valueKey == _getValueKey(key)
  IN  IF valueKey \notin DOMAIN c \/ ~HasExpireAt(c[valueKey]) THEN 0
      ELSE LET ttl == (c[valueKey].expireAt - t) \div 1000
           IN  IF ttl > 0 THEN ttl ELSE 0

\* A presence test that leaves out the documents whose expireAt has passed
existsUnexpired(c, key) ==
  LET valueKey == _getValueKey(key)
  IN  /\ valueKey \in DOMAIN c
      /\ HasExpireAt(c[valueKey]) => c[valueKey].expireAt > now

exists(c, key) == countDocuments(c, _getValueKey(key)) > 0

---------------------------------------------------------------------------------------------------------------------------------------------------
(* The state machine: one action per call of the public interface, the     *)
(* clock, and the store's TTL reaper.                                      *)

\* The argument of invalidate: one string, or an array of strings.
Single(r) == [isArray |-> FALSE, str |-> r, arr |-> <<>>]

List(l) == [isArray |-> TRUE, str |-> <<>>, arr |-> l]

NoKey == <<>>

NoArg == Single(<<>>)

\* The document stored under an id, if any
DocAt(c, id) == IF id \in DOMAIN c THEN {c[id]} ELSE {}

\* A call: its name, its key or its invalidate argument, the failing backend
\* call (position fi in the list, call number f; 0: none), when it was made,
\* the value document of its key before it, how it ended and what it
\* returned.
Call(op, key, arg, fi, f, outcome, result) ==
  [op |-> op, key |-> key, arg |-> arg, fi |-> fi, f |-> f, at |-> now,
   pre |-> IF key = NoKey THEN {} ELSE DocAt(collection, _getValueKey(key)),
   outcome |-> outcome, result |-> result]

\* The arguments of the most recent set() on a key that returned: step is
\* the number of calls made before it, indexed whether every reference
\* write was applied.
NeverSet ==
  [called |-> FALSE, value |-> 0, ttl |-> 0, refs |-> {}, at |-> 0,
   step |-> 0, indexed |-> FALSE]

\* A document of some other application in the shared collection.
OtherId == <<"o">>

OtherDoc == [value |-> 9]

\* The concurrent callers
Procs == 1..MaxProcs

\* A caller that has not made its call
IdleProc ==
  [op |-> "idle", pc |-> "idle", key |-> NoKey, value |-> 0, ttl |-> 0,
   refs |-> {}, todo |-> {}, ref |-> <<>>, ids |-> {}, keys |-> {},
   overlapped |-> FALSE, within |-> FALSE]

\* The options of the constructor: whether a collection, a db handle and a
\* logger are given.
Options == [collection : BOOLEAN, db : BOOLEAN, log : BOOLEAN]

\* A constructor that requires options.collection
constructorCollectionOnly(options) ==
  IF ~options.collection
    THEN [usable |-> FALSE, handle |-> "none", ttlIndex |-> FALSE]
    ELSE [usable |-> TRUE, handle |-> "collection", ttlIndex |-> TRUE]

\* The constructor: without a collection and without a db it throws before
\* anything else; otherwise it takes the collection, or the collection of
\* the db, and calls _initializeTTLIndexes, whose createIndex is the first
\* backend call.
constructor(options) ==
  IF ~options.collection /\ ~options.db
    THEN [usable |-> FALSE, handle |-> "none", ttlIndex |-> FALSE]
    ELSE [usable |-> TRUE,
          handle |-> IF options.collection THEN "collection" ELSE "db",
          ttlIndex |-> TRUE]

\* The state after new MongoStorage(options), for options among opts
InitWith(opts) ==
  /\ \E options \in opts :
       /\ instance = constructor(options)
       /\ log = options.log
  /\ collection = [id \in {OtherId} |-> OtherDoc]
  /\ now = 0
  /\ last = [op |-> "new", key |-> NoKey, arg |-> NoArg, fi |-> 0, f |-> 0,
             at |-> 0, pre |-> {}, outcome |-> "returned", result |-> 0]
  /\ lastSet = [k \in AllKeys |-> NeverSet]
  /\ faults = 0
  /\ inflight = [p \in Procs |-> IdleProc]
  /\ reaped = 0
  /\ steps = 0

\* The state after the constructor, called with a collection and with or
\* without a logger as loggers has it.
InitLog(loggers) ==
  InitWith({options \in Options :
              options.collection /\ ~options.db /\ options.log \in loggers})

\* A storage constructed with a collection and a logger
Init == InitLog({TRUE})

\* A log call without the guard: this.log.error(...) on an undefined logger
\* is a TypeError.
logErrorUnguarded(logger) == IF logger THEN "logged" ELSE "raised"

\* if (this.log) { this.log.error(...) }
logError(logger) == IF logger THEN "logged" ELSE "skipped"

\* Catch blocks that all rethrow
caughtRethrown(f, after) == IF f = 0 THEN "returned" ELSE "raised"

\* How a call ends: f is the failing backend call (0: none), after is what
\* the catch block does once it has logged the error.
caught(f, after) ==
  IF f = 0 THEN "returned"
  ELSE IF logError(log) = "raised" THEN "raised" ELSE after

\* A set whose catch block swallows the error, as the other handlers do
setOutcomeSwallowed(f) == "returned"

\* The catch block of set() rethrows the error of the value write; an error
\* of the reference writes is caught in _storeReferences and not rethrown.
setOutcome(f) == IF f = 1 THEN "raised" ELSE "returned"

\* The bookkeeping every call shares: r is the handler's result, f the
\* failing backend call, which must be one the handler reaches.
Called(r, f) ==
  /\ instance.usable
  /\ steps < MaxSteps
  /\ r.hit = (f # 0)
  /\ f # 0 => faults < MaxFaults
  /\ collection' = r.c
  /\ faults' = IF f # 0 THEN faults + 1 ELSE faults
  /\ steps' = steps + 1
  /\ UNCHANGED <<now, inflight, instance, log, reaped>>

Set(key, value, ttl, references, f, failedOps) ==
  /\ f = 2 => failedOps # {}
  /\ f # 2 => failedOps = {}
  /\ Called(set(collection, key, value, ttl, references, now, f, failedOps), f)
  /\ last' = Call("set", key, NoArg, 0, f, caught(f, setOutcome(f)), 0)
  /\ lastSet' = IF f = 1 THEN lastSet
                ELSE [lastSet EXCEPT ![key] =
                        [called |-> TRUE, value |-> value, ttl |-> ttl,
                         refs |-> references, at |-> now, step |-> steps,
                         indexed |-> (f = 0)]]

Get(key, f) ==
  /\ Called(Res(collection, f = 1), f)
  /\ last' = Call("get", key, NoArg, 0, f, caught(f, "returned"),
                  IF f = 1 THEN undefined ELSE get(collection, key))
  /\ UNCHANGED lastSet

Remove(key, f) ==
  /\ Called(remove(collection, key, f), f)
  /\ last' = Call("remove", key, NoArg, 0, f, caught(f, "returned"), 0)
  /\ UNCHANGED lastSet

Invalidate(references, fi, f) ==
  /\ (fi = 0) = (f = 0)
  /\ Called(invalidate(collection, references, fi, f), f)
  /\ last' = Call("invalidate", NoKey, references, fi, f,
                  caught(f, "returned"), 0)
  /\ UNCHANGED lastSet

Clear(f) ==
  /\ Called(clear(collection, f), f)
  /\ last' = Call("clear", NoKey, NoArg, 0, f, caught(f, "raised"), 0)
  /\ UNCHANGED lastSet

Refresh(key, ttl, f) ==
  /\ Called(refresh(collection, key, ttl, now, f), f)
  /\ last' = Call("refresh", key, NoArg, 0, f, caught(f, "returned"), ttl)
  /\ UNCHANGED lastSet

GetTTL(key, f) ==
  /\ Called(Res(collection, f = 1), f)
  /\ last' = Call("getTTL", key, NoArg, 0, f, caught(f, "returned"),
                  IF f = 1 THEN 0 ELSE getTTL(collection, key, now))
  /\ UNCHANGED lastSet

Exists(key, f) ==
  /\ Called(Res(collection, f = 1), f)
  /\ last' = Call("exists", key, NoArg, 0, f, caught(f, "returned"),
                  IF f = 1 THEN 0
                  ELSE IF exists(collection, key) THEN 1 ELSE 0)
  /\ UNCHANGED lastSet

\* Time passes.
Tick ==
  /\ now + TickMs <= MaxNow
  /\ now' = now + TickMs
  /\ UNCHANGED <<collection, last, lastSet, faults, inflight, instance, log,
                 reaped, steps>>

\* The TTL index on expireAt (expireAfterSeconds: 0): the store deletes, at
\* a time of its choosing, a document whose expireAt has passed.
Reap(id) ==
  /\ id \in DOMAIN collection
  /\ HasExpireAt(collection[id])
  /\ collection[id].expireAt <= now
  /\ collection' = deleteOne(collection, id)
  /\ reaped' = reaped + 1
  /\ instance.ttlIndex
  /\ UNCHANGED <<now, last, lastSet, faults, inflight, instance, log, steps>>

\* The arguments of the calls
RefSetsOf(R) == {S \in SUBSET R : Cardinality(S) <= MaxRefs}

RECURSIVE ListsUpTo(_, _)
ListsUpTo(E, n) ==
  IF n = 0 THEN {<<>>}
  ELSE LET shorter == ListsUpTo(E, n - 1)
       IN  shorter \cup {Append(l, e) : l \in shorter, e \in E}

InvalidateArgs(E) ==
  {Single(e) : e \in E} \cup {List(l) : l \in ListsUpTo(E, MaxList)}

AllIds == {_getValueKey(k) : k \in AllKeys}
          \cup {_getReferenceKey(r) : r \in Refs \cup {EdgeStr, RefDot}}
          \cup {OtherId}

\* One call of the public interface with a key among K, a payload among V,
\* a ttl among T, references among R, invalidate entries among E, and
\* failing backend call among F.
SomeCall(K, V, T, R, E, F) ==
  \/ \E key \in K, value \in V, ttl \in T, references \in RefSetsOf(R),
        f \in F \cap 0..2 :
       \E failedOps \in SUBSET references :
         Set(key, value, ttl, references, f, failedOps)
  \/ \E key \in K, f \in F \cap 0..1 : Get(key, f)
  \/ \E key \in K, f \in F \cap 0..1 : Remove(key, f)
  \/ \E references \in InvalidateArgs(E), fi \in 0..MaxList, f \in F :
       Invalidate(references, fi, f)
  \/ \E f \in F \cap 0..1 : Clear(f)
  \/ \E key \in K, ttl \in T, f \in F \cap 0..1 : Refresh(key, ttl, f)
  \/ \E key \in K, f \in F \cap 0..1 : GetTTL(key, f)
  \/ \E key \in K, f \in F \cap 0..1 : Exists(key, f)

\* Calls on a short and a long key while time passes and the reaper runs.
Next ==
  \/ SomeCall({KeyA, LongStr}, Payloads, TTLs, {RefX12}, {RefX12}, {0})
  \/ Tick
  \/ \E id \in AllIds : Reap(id)

Spec == Init /\ [][Next]_vars

\* A sequential run without backend failures or expiry, over all the
\* references and patterns.
NextSeq == SomeCall(Keys, {1}, {0, 1}, Refs, Refs \cup Patterns, {0})

SpecSeq == Init /\ [][NextSeq]_vars

\* A run in which backend calls fail, without expiry.
NextFault ==
  SomeCall(Keys, {1}, {0, 1}, {RefX12, LongStr},
           {RefX12, LongStr, <<"x", "*", "1">>}, 0..3)

SpecFault == Init /\ [][NextFault]_vars

\* A run on a key of exactly maxKeyLength characters and a longer one, of a
\* storage constructed with any of the options, in which backend calls fail.
NextEdge ==
  SomeCall({EdgeStr, LongStr}, {1}, {0, 1}, {EdgeStr}, {EdgeStr, <<"*">>},
           0..3)

SpecEdge == InitWith(Options) /\ [][NextEdge]_vars

\* A sequential run on references with and without a metacharacter, and
\* patterns that have one:  *.  and  x*1
NextGlob ==
  SomeCall({KeyA, LongStr}, {1}, {0}, {RefX12, RefDot},
           {RefX12, <<"*", ".">>, <<"x", "*", "1">>}, {0})

SpecGlob == Init /\ [][NextGlob]_vars

----------------------------------------------------------------------------
(* Concurrent callers.  Every await of a handler is a point where the      *)
(* calls of other callers can run, so each backend call is a step of its   *)
(* own; the store applies each single-document write atomically and the    *)
(* operations of an unordered bulkWrite one by one, in any order.          *)

InFlight(q) == inflight[q].pc \notin {"idle", "done"}

\* Caller p starts a call: it now overlaps every call in flight.
Begin(p, call) ==
  /\ instance.usable
  /\ inflight[p].pc = "idle"
  /\ \A q \in Procs : q < p => inflight[q].pc # "idle"
  /\ inflight' =
       [q \in Procs |->
          IF q = p
            THEN [call EXCEPT !.overlapped = \E o \in Procs : InFlight(o)]
          ELSE IF InFlight(q) THEN [inflight[q] EXCEPT !.overlapped = TRUE]
          ELSE inflight[q]]
  /\ UNCHANGED <<collection, now, last, lastSet, faults, instance, log,
                 reaped, steps>>

\* set(key, value, ttl, references) up to its first await; within tells
\* whether an invalidation is between its lookup and its last delete.
BeginSet(p, key, value, ttl, references) ==
  Begin(p, [IdleProc EXCEPT
              !.op = "set", !.pc = "replaceOne", !.key = key,
              !.value = value, !.ttl = ttl, !.refs = references,
              !.todo = references,
              !.within = \E q \in Procs :
                           /\ inflight[q].op = "invalidate"
                           /\ inflight[q].pc \in {"deleteValues",
                                                  "deleteReferences"}])

\* A step of caller p that leaves the collection as c and p's call as call
Step(p, c, call) ==
  /\ collection' = c
  /\ inflight' = [inflight EXCEPT ![p] = call]
  /\ UNCHANGED <<now, last, lastSet, faults, instance, log, reaped, steps>>

\* await this.collection.replaceOne(...)
SetReplaceOne(p) ==
  LET call == inflight[p]
  IN  /\ call.op = "set" /\ call.pc = "replaceOne"
      /\ Step(p,
              writeValue(collection, _getValueKey(call.key),
                         ValueDoc(call.value, now,
                                  _getExpirationDate(call.ttl, now))),
              [call EXCEPT !.pc = IF call.refs # {} THEN "bulkWrite"
                                                    ELSE "done"])

\* One updateOne of the unordered bulkWrite
SetUpdateOne(p, reference) ==
  LET call == inflight[p]
  IN  /\ call.op = "set" /\ call.pc = "bulkWrite"
      /\ reference \in call.todo
      /\ Step(p,
              upsertReference(collection, _getReferenceKey(reference),
                              call.key, now,
                              _getExpirationDate(call.ttl, now)),
              [call EXCEPT !.todo = call.todo \ {reference},
                           !.pc = IF call.todo = {reference}
                                    THEN "done" ELSE "bulkWrite"])

\* invalidate(reference) for one string, up to its first await
BeginInvalidate(p, reference) ==
  Begin(p, [IdleProc EXCEPT !.op = "invalidate", !.pc = "lookup",
                            !.ref = reference])

\* An invalidation that deletes the reference records before the values
invalidateNextReferencesFirst(pc) ==
  CASE pc = "lookup"           -> "deleteReferences"
    [] pc = "deleteReferences" -> "deleteValues"
    [] pc = "deleteValues"     -> "done"

\* The order of the backend calls of _invalidateByReference and
\* _invalidateByPattern: the lookup, the deleteMany of the values, the
\* delete of the reference record(s).
invalidateNext(pc) ==
  CASE pc = "lookup"           -> "deleteValues"
    [] pc = "deleteValues"     -> "deleteReferences"
    [] pc = "deleteReferences" -> "done"

\* findOne({_id: referenceKey}), or find({_id: {$regex}}).toArray(): the
\* call keeps the ids and the keys it has read.
InvalidateLookup(p) ==
  LET call == inflight[p]
      ids == IF "*" \in Range(call.ref)
               THEN find(collection, regexPattern(call.ref))
               ELSE {id \in {_getReferenceKey(call.ref)} :
                       id \in DOMAIN collection
                         /\ "keys" \in DOMAIN collection[id]}
      keys == UNION {IF "keys" \in DOMAIN collection[id]
                       THEN Range(collection[id].keys) ELSE {} : id \in ids}
  IN  /\ call.op = "invalidate" /\ call.pc = "lookup"
      /\ Step(p, collection,
              [call EXCEPT !.ids = ids, !.keys = keys,
                           !.pc = IF ids = {} THEN "done"
                                  ELSE invalidateNext("lookup")])

\* deleteMany({_id: {$in: valueKeys}}), skipped without keys
InvalidateDeleteValues(p) ==
  LET call == inflight[p]
      valueKeys == {_getValueKey(key) : key \in call.keys}
  IN  /\ call.op = "invalidate" /\ call.pc = "deleteValues"
      /\ Step(p,
              IF valueKeys # {} THEN deleteMany(collection, valueKeys)
                                ELSE collection,
              [call EXCEPT !.pc = invalidateNext("deleteValues")])

\* deleteOne({_id: referenceKey}), or deleteMany({_id: {$in: referenceIds}});
\* a set still running is no longer within this invalidation.
InvalidateDeleteReferences(p) ==
  LET call == inflight[p]
  IN  /\ call.op = "invalidate" /\ call.pc = "deleteReferences"
      /\ collection' = deleteMany(collection, call.ids)
      /\ inflight' =
           [q \in Procs |->
              IF q = p
                THEN [call EXCEPT !.pc = invalidateNext("deleteReferences")]
              ELSE IF InFlight(q) THEN [inflight[q] EXCEPT !.within = FALSE]
              ELSE inflight[q]]
      /\ UNCHANGED <<now, last, lastSet, faults, instance, log, reaped,
                     steps>>

\* Concurrent sets on two keys with one reference, and invalidations of the
\* reference and of a pattern that selects it.
NextConc ==
  \E p \in Procs :
    \/ \E key \in {KeyA, LongStr}, vt \in {<<1, 0>>, <<2, 1>>} :
         BeginSet(p, key, vt[1], vt[2], {RefX12})
    \/ SetReplaceOne(p)
    \/ \E reference \in Refs : SetUpdateOne(p, reference)
    \/ \E reference \in {RefX12, <<"x", "*">>} : BeginInvalidate(p, reference)
    \/ InvalidateLookup(p)
    \/ InvalidateDeleteValues(p)
    \/ InvalidateDeleteReferences(p)

SpecConc == Init /\ [][NextConc]_vars

----------------------------------------------------------------------------
(* Vocabulary of the properties *)

\* The step is a call of the public interface named op.
CallOf(op) == steps' = steps + 1 /\ last'.op = op

IsReferenceId(id) == Len(id) >= 2 /\ id[1] = "r" /\ id[2] = ":"

IsValueId(id) == Len(id) >= 2 /\ id[1] = "v" /\ id[2] = ":"

\* An id without its two-character namespace prefix
Strip(id) == SubSeq(id, 3, Len(id))

\* The raw keys the reference record under id lists
Listed(c, id) ==
  IF id \in DOMAIN c /\ "keys" \in DOMAIN c[id] THEN Range(c[id].keys) ELSE {}

\* p matches the whole of s, '*' standing for any character sequence.
RECURSIVE GlobFull(_, _)
GlobFull(p, s) ==
  IF p = <<>> THEN s = <<>>
  ELSE IF Head(p) = "*"
    THEN \E n \in 0..Len(s) : GlobFull(Tail(p), SubSeq(s, n + 1, Len(s)))
    ELSE s # <<>> /\ Head(s) = Head(p) /\ GlobFull(Tail(p), Tail(s))

\* p matches some leading part of s.
GlobPrefix(p, s) == \E n \in 0..Len(s) : GlobFull(p, SubSeq(s, 1, n))

\* The reference records an entry of invalidate selects: the record of the
\* reference, or the records whose stored name starts with a match of the
\* pattern.
SelectedBy(c, e) ==
  IF "*" \in Range(e)
    THEN {id \in DOMAIN c : IsReferenceId(id) /\ GlobPrefix(e, Strip(id))}
    ELSE {_getReferenceKey(e)} \cap DOMAIN c

\* The documents of c other than those under ids are the documents of d.
SameExcept(c, d, ids) ==
  /\ DOMAIN d \ ids = DOMAIN c \ ids
  /\ \A id \in DOMAIN c \ ids : d[id] = c[id]

\* The raw keys whose set() wrote the value document under id last
OwnerOf(id) ==
  {k \in Keys :
     /\ _getValueKey(k) = id
     /\ lastSet[k].called
     /\ \A k2 \in Keys : (_getValueKey(k2) = id /\ lastSet[k2].called)
                           => lastSet[k2].step <= lastSet[k].step}

----------------------------------------------------------------------------
(* C1: without backend failures, a set(k, v) that returned makes get(k)    *)
(* return v, and get(k) keeps returning the payload of the most recent set *)
(* on k until a remove(k), an invalidation whose reference lists k, a      *)
(* clear() or the expiry of the record; get of a key without a value       *)
(* record returns undefined and does not raise.                            *)

C1_Removes(k) ==
  \/ CallOf("set") /\ last'.key = k
  \/ CallOf("remove") /\ last'.key = k
  \/ /\ CallOf("invalidate")
     /\ \E i \in 1..Len(asArray(last'.arg)) :
          \E id \in SelectedBy(collection, asArray(last'.arg)[i]) :
            k \in Listed(collection, id)
  \/ CallOf("clear")
  \/ reaped' # reaped

C1_SetThenGet ==
  [][faults' = 0 =>
       \A k \in Keys :
         /\ (CallOf("set") /\ last'.key = k /\ last'.outcome = "returned")
              => get(collection', k) = lastSet'[k].value
         /\ (/\ lastSet[k].called
             /\ get(collection, k) = lastSet[k].value
             /\ get(collection', k) # get(collection, k))
              => C1_Removes(k)
         /\ (/\ CallOf("get")
             /\ last'.key = k
             /\ _getValueKey(k) \notin DOMAIN collection)
              => last'.result = undefined /\ last'.outcome = "returned"]_vars

----------------------------------------------------------------------------
(* C2: in a sequential run without backend failures or expiry, after       *)
(* invalidate(r) for a reference r without '*', get(k) is a miss for every *)
(* key k whose set listed r, the reference record of r is gone, and every  *)
(* value record whose key r's reference record did not list is unchanged.  *)

C2_ExactInvalidate ==
  [][(/\ CallOf("invalidate")
      /\ ~last'.arg.isArray
      /\ "*" \notin Range(last'.arg.str)
      /\ faults' = 0
      /\ reaped' = 0)
       => LET r == last'.arg.str
              listed == Listed(collection, _getReferenceKey(r))
          IN  /\ \A k \in Keys :
                   (lastSet[k].called /\ r \in lastSet[k].refs)
                     => get(collection', k) = undefined
              /\ _getReferenceKey(r) \notin DOMAIN collection'
              /\ \A id \in DOMAIN collection :
                   (IsValueId(id) /\ OwnerOf(id) \cap listed = {})
                     => DocAt(collection', id) = DocAt(collection, id)]_vars

----------------------------------------------------------------------------
(* C3: in a sequential run without backend failures or expiry,             *)
(* invalidate(p) for a pattern p with '*' removes the value record of every *)
(* key listed under a stored reference whose name, of at most 200          *)
(* characters, matches p, removes those reference records, and leaves      *)
(* unchanged the values listed only under non-matching references and the  *)
(* non-matching reference records.                                         *)

\* The reference names of the model stored under a reference id
NamesOf(id) == {r \in Refs : _getReferenceKey(r) = id}

\* As the claim has it: a reference matches when its whole name matches p.
C3_WholeNameMatch ==
  [][(/\ CallOf("invalidate")
      /\ ~last'.arg.isArray
      /\ "*" \in Range(last'.arg.str)
      /\ faults' = 0
      /\ reaped' = 0)
       => LET p == last'.arg.str
              stored == {id \in DOMAIN collection : IsReferenceId(id)}
              matching == {id \in stored :
                             \E r \in NamesOf(id) :
                               Len(r) <= maxKeyLength /\ GlobFull(p, r)}
              others == {id \in stored :
                           \A r \in NamesOf(id) : ~GlobFull(p, r)}
              keysM == UNION {Listed(collection, id) : id \in matching}
              keysO == UNION {Listed(collection, id) : id \in others}
          IN  /\ \A k \in keysM : _getValueKey(k) \notin DOMAIN collection'
              /\ matching \cap DOMAIN collection' = {}
              /\ \A k \in keysO \ keysM :
                   DocAt(collection', _getValueKey(k))
                     = DocAt(collection, _getValueKey(k))
              /\ \A id \in others :
                   DocAt(collection', id) = DocAt(collection, id)]_vars

\* C3 as amended: the pattern selects every reference record whose stored
\* name starts with a match of p; the value documents of the keys those
\* records list and the records themselves are removed, and every other
\* document is unchanged.
C3_LeadingMatch ==
  [][(/\ CallOf("invalidate")
      /\ ~last'.arg.isArray
      /\ "*" \in Range(last'.arg.str)
      /\ faults' = 0
      /\ reaped' = 0)
       => LET p == last'.arg.str
              selected == {id \in DOMAIN collection :
                             IsReferenceId(id) /\ GlobPrefix(p, Strip(id))}
              values == {_getValueKey(k) :
                           k \in UNION {Listed(collection, id) :
                                          id \in selected}}
          IN  /\ DOMAIN collection' = DOMAIN collection \ (selected \cup values)
              /\ \A id \in DOMAIN collection' :
                   collection'[id] = collection[id]]_vars

\* set(a, [x12]); set(long key, [long reference]); invalidate('x*1'):
\* a is gone with the record of x12, the long key and its reference stay.
C3_Witness ==
  /\ last.op = "invalidate"
  /\ last.arg = Single(<<"x", "*", "1">>)
  /\ steps = 3
  /\ lastSet[KeyA].called /\ lastSet[KeyA].step = 0
  /\ lastSet[KeyA].refs = {RefX12}
  /\ lastSet[LongStr].called /\ lastSet[LongStr].step = 1
  /\ lastSet[LongStr].refs = {LongStr}
  /\ get(collection, KeyA) = undefined
  /\ _getReferenceKey(RefX12) \notin DOMAIN collection
  /\ get(collection, LongStr) = lastSet[LongStr].value
  /\ _getReferenceKey(LongStr) \in DOMAIN collection

----------------------------------------------------------------------------
(* C4: a set(k, v, ttl, [r1..rn]) whose indexing succeeds creates or       *)
(* updates one separate reference record per reference, each listing the   *)
(* raw key k; afterwards invalidate(ri) for any one of the references      *)
(* makes get(k) a miss.                                                    *)

C4_RecordPerReference ==
  [][(CallOf("set") /\ last'.outcome = "returned" /\ last'.f = 0)
       => LET k == last'.key
              refs == lastSet'[k].refs
          IN  /\ \A r \in refs : k \in Listed(collection', _getReferenceKey(r))
              /\ Cardinality({_getReferenceKey(r) : r \in refs})
                   = Cardinality(refs)
              /\ \A r \in refs :
                   get(invalidate(collection', Single(r), 0, 0).c, k)
                     = undefined]_vars

----------------------------------------------------------------------------
(* C5: invalidate([r1..rn]) processes the entries in list order, each      *)
(* routed by whether it contains '*', and independently: it ends in the    *)
(* state that the calls invalidate(r1), ..., invalidate(rn) made one after *)
(* the other end in, it returns, and a backend failure while one entry is  *)
(* processed does not keep the later entries from being processed.         *)

\* The collection after invalidate(refs[i]), ..., invalidate(refs[n]), each
\* a call of its own; backend call f fails in the call for entry fi.
RECURSIVE C5_OneByOne(_, _, _, _, _)
C5_OneByOne(c, refs, i, fi, f) ==
  IF i > Len(refs) THEN c
  ELSE C5_OneByOne(invalidate(c, Single(refs[i]),
                              IF i = fi THEN 1 ELSE 0,
                              IF i = fi THEN f ELSE 0).c,
                   refs, i + 1, fi, f)

C5_ListOneByOne ==
  [][(CallOf("invalidate") /\ last'.arg.isArray)
       => LET refs == last'.arg.arr
          IN  /\ collection' = C5_OneByOne(collection, refs, 1, last'.fi,
                                           last'.f)
              /\ last'.outcome = "returned"
              /\ \A j \in 1..Len(refs) :
                   (last'.fi # 0 /\ j > last'.fi)
                     => SelectedBy(collection', refs[j]) = {}]_vars

\* set(a, [x12, long reference]); invalidate([x12, long reference]) with a
\* backend failure in the first entry: the second entry was processed.
C5_Witness ==
  /\ last.op = "invalidate"
  /\ last.arg = List(<<RefX12, LongStr>>)
  /\ last.fi = 1 /\ last.f # 0
  /\ steps = 2
  /\ lastSet[KeyA].called /\ lastSet[KeyA].indexed
  /\ lastSet[KeyA].refs = {RefX12, LongStr}
  /\ _getReferenceKey(RefX12) \in DOMAIN collection
  /\ _getReferenceKey(LongStr) \notin DOMAIN collection
  /\ get(collection, KeyA) = undefined

----------------------------------------------------------------------------
(* C6: invalidate(r) for a reference without a reference record, and       *)
(* invalidate(p) for a pattern that matches no reference record, leave     *)
(* every value record and every reference record unchanged and return.     *)

C6_NothingToInvalidate ==
  [][(/\ CallOf("invalidate")
      /\ ~last'.arg.isArray
      /\ SelectedBy(collection, last'.arg.str) = {})
       => collection' = collection /\ last'.outcome = "returned"]_vars

\* set(k, v, ttl) without references, then invalidate('*'): no reference
\* record exists, the value is still there.
C6_Witness ==
  /\ last.op = "invalidate"
  /\ last.arg = Single(<<"*">>)
  /\ steps = 2
  /\ \E k \in Keys :
       /\ lastSet[k].called /\ lastSet[k].refs = {}
       /\ get(collection, k) = lastSet[k].value
       /\ \A id \in DOMAIN collection : ~IsReferenceId(id)

----------------------------------------------------------------------------
(* C7: after a clear() that returned, no value record and no reference     *)
(* record remains, so exists(k) is false and get(k) is undefined for every *)
(* key k, until the next set.                                              *)

NoCacheRecords(c) == \A id \in DOMAIN c : ~IsValueId(id) /\ ~IsReferenceId(id)

C7_ClearEmpties ==
  [][/\ (CallOf("clear") /\ last'.outcome = "returned")
          => /\ NoCacheRecords(collection')
             /\ \A k \in Keys : /\ ~exists(collection', k)
                                /\ get(collection', k) = undefined
     /\ (NoCacheRecords(collection) /\ ~CallOf("set"))
          => NoCacheRecords(collection')]_vars

\* set with references, then clear(): only the foreign document is left.
C7_Witness ==
  /\ last.op = "clear"
  /\ last.outcome = "returned"
  /\ steps = 2
  /\ \E k \in Keys :
       lastSet[k].called /\ lastSet[k].indexed /\ lastSet[k].refs # {}
  /\ DOMAIN collection = {OtherId}

----------------------------------------------------------------------------
(* C8: remove(k) is idempotent and never raises: after it get(k) is        *)
(* undefined, a second remove(k) or a remove of a key that was never set   *)
(* leaves the store as it was, and no value record other than k's changes. *)

C8_RemoveIdempotent ==
  [][\A k \in Keys :
       (CallOf("remove") /\ last'.key = k)
         => /\ last'.outcome = "returned"
            /\ last'.f = 0 => get(collection', k) = undefined
            /\ (last.op = "remove" /\ last.key = k /\ last.f = 0)
                 => collection' = collection
            /\ ~lastSet[k].called => collection' = collection
            /\ SameExcept(collection, collection', {_getValueKey(k)})]_vars

----------------------------------------------------------------------------
(* C9: after set(k, v, ttl) with ttl <= 0 the value record has no          *)
(* expireAt, getTTL(k) is 0 and get(k) is v, whatever record was stored    *)
(* for k before, one written with a positive ttl included.                 *)

C9_NoExpiry ==
  [][\A k \in Keys :
       (/\ CallOf("set")
        /\ last'.key = k
        /\ last'.outcome = "returned"
        /\ lastSet'[k].ttl <= 0)
         => /\ _getValueKey(k) \in DOMAIN collection'
            /\ ~HasExpireAt(collection'[_getValueKey(k)])
            /\ getTTL(collection', k, now') = 0
            /\ get(collection', k) = lastSet'[k].value]_vars

\* A set with ttl <= 0 over a record that carried an expireAt.
C9_Witness ==
  /\ last.op = "set"
  /\ last.outcome = "returned"
  /\ lastSet[last.key].ttl <= 0
  /\ \E doc \in last.pre : HasExpireAt(doc)
  /\ ~HasExpireAt(collection[_getValueKey(last.key)])

----------------------------------------------------------------------------
(* C10: for every ttl > 0, set(k, v, ttl) stores expireAt = time of the    *)
(* call + ttl seconds, and getTTL(k) called immediately afterwards returns *)
(* an integer in the range (0, ttl].                                       *)

\* getTTL(k) is the call after a set(k, v, ttl) that returned, with ttl > 0,
\* and less than a second later.
C10_RightAfterSet(k) ==
  /\ CallOf("getTTL")
  /\ last'.key = k
  /\ last.op = "set" /\ last.key = k /\ last.outcome = "returned"
  /\ lastSet[k].ttl > 0
  /\ last'.at - last.at < 1000

C10_Stored(k) ==
  (CallOf("set") /\ last'.key = k /\ last'.outcome = "returned"
     /\ lastSet'[k].ttl > 0)
    => /\ _getValueKey(k) \in DOMAIN collection'
       /\ HasExpireAt(collection'[_getValueKey(k)])
       /\ collection'[_getValueKey(k)].expireAt = now + lastSet'[k].ttl * 1000

\* As the claim has it.
C10_InRange ==
  [][\A k \in Keys :
       /\ C10_Stored(k)
       /\ C10_RightAfterSet(k) => last'.result \in 1..lastSet[k].ttl]_vars

\* C10 as amended: the result is ttl less the elapsed time, rounded down to
\* whole seconds: ttl when no time has passed, ttl - 1 otherwise.
C10_RoundedDown ==
  [][\A k \in Keys :
       /\ C10_Stored(k)
       /\ C10_RightAfterSet(k)
            => LET elapsed == last'.at - last.at
                   ttl == lastSet[k].ttl
               IN  /\ last'.result = (ttl * 1000 - elapsed) \div 1000
                   /\ last'.result = IF elapsed = 0 THEN ttl ELSE ttl - 1]_vars

\* set(k, v, 1), then getTTL(k) less than a second later, returning 0.
C10_Witness ==
  /\ last.op = "getTTL"
  /\ lastSet[last.key].called
  /\ lastSet[last.key].ttl = 1
  /\ lastSet[last.key].step = steps - 2
  /\ last.at > lastSet[last.key].at
  /\ last.at - lastSet[last.key].at < 1000
  /\ last.result = 0

----------------------------------------------------------------------------
(* C11: getTTL(k) is never negative: it returns 0 when k has no value      *)
(* record, when the record has no expireAt, and when the record's expireAt *)
(* is in the past and the reaper has not removed the record; otherwise it  *)
(* returns the remaining time in whole seconds, rounded down.              *)

C11_NeverNegative ==
  [][\A k \in AllKeys :
       (CallOf("getTTL") /\ last'.key = k /\ last'.f = 0)
         => LET id == _getValueKey(k)
            IN  /\ last'.outcome = "returned"
                /\ last'.result >= 0
                /\ last'.pre = DocAt(collection, id)
                /\ id \notin DOMAIN collection => last'.result = 0
                /\ id \in DOMAIN collection =>
                     LET doc == collection[id]
                     IN  IF ~HasExpireAt(doc) THEN last'.result = 0
                         ELSE IF doc.expireAt <= now THEN last'.result = 0
                         ELSE /\ last'.result * 1000 <= doc.expireAt - now
                              /\ doc.expireAt - now < (last'.result + 1) * 1000
                /\ collection' = collection]_vars

\* getTTL of a record whose expireAt is in the past and which is still in
\* the collection: 0.
C11_Witness ==
  /\ last.op = "getTTL"
  /\ last.f = 0
  /\ \E doc \in last.pre : HasExpireAt(doc) /\ doc.expireAt < last.at
  /\ last.result = 0

----------------------------------------------------------------------------
(* C12: for a key k with a value record, refresh(k, ttl) with ttl <= 0     *)
(* removes the record's expireAt and leaves the payload as it is, so that  *)
(* getTTL(k) is 0 and get(k) returns the stored value; with ttl > 0 it     *)
(* sets expireAt to the time of the call + ttl seconds and leaves the      *)
(* payload as it is.                                                       *)

C12_RefreshKeepsPayload ==
  [][\A k \in AllKeys :
       (/\ CallOf("refresh")
        /\ last'.key = k
        /\ last'.f = 0
        /\ _getValueKey(k) \in DOMAIN collection)
         => LET id == _getValueKey(k)
                old == collection[id]
                ttl == last'.result
            IN  /\ last'.outcome = "returned"
                /\ id \in DOMAIN collection'
                /\ "value" \in DOMAIN collection'[id]
                /\ collection'[id].value = old.value
                /\ get(collection', k) = old.value
                /\ ttl <= 0 => /\ ~HasExpireAt(collection'[id])
                               /\ getTTL(collection', k, now') = 0
                /\ ttl > 0 => /\ HasExpireAt(collection'[id])
                              /\ collection'[id].expireAt = now + ttl * 1000
                /\ SameExcept(collection, collection', {id})]_vars

\* refresh(k, ttl <= 0) of a record that carried an expireAt: the expireAt
\* is gone and the payload is the one that was set.
C12_Witness ==
  /\ last.op = "refresh"
  /\ last.f = 0
  /\ last.result <= 0
  /\ \E doc \in last.pre : HasExpireAt(doc)
  /\ _getValueKey(last.key) \in DOMAIN collection
  /\ ~HasExpireAt(collection[_getValueKey(last.key)])
  /\ lastSet[last.key].called
  /\ get(collection, last.key) = lastSet[last.key].value

----------------------------------------------------------------------------
(* C13: exists(k) returns true exactly when a value record with k's        *)
(* encoded id is in the store, whatever its expireAt: it is true after a   *)
(* set(k) that returned, true for a record whose expireAt has passed and   *)
(* which has not been reaped, and false after remove(k), after an          *)
(* invalidation whose reference lists k and after clear().                 *)

C13_ExistsIsPresence ==
  [][\A k \in AllKeys :
       LET id == _getValueKey(k)
       IN  /\ (CallOf("exists") /\ last'.key = k /\ last'.f = 0)
                => /\ last'.outcome = "returned"
                   /\ last'.result = IF id \in DOMAIN collection THEN 1 ELSE 0
                   /\ collection' = collection
           /\ (CallOf("set") /\ last'.key = k /\ last'.outcome = "returned")
                => exists(collection', k)
           /\ (CallOf("remove") /\ last'.key = k /\ last'.f = 0)
                => ~exists(collection', k)
           /\ (/\ CallOf("invalidate")
               /\ last'.f = 0
               /\ \E i \in 1..Len(asArray(last'.arg)) :
                    \E rid \in SelectedBy(collection, asArray(last'.arg)[i]) :
                      k \in Listed(collection, rid))
                => ~exists(collection', k)
           /\ (CallOf("clear") /\ last'.outcome = "returned")
                => ~exists(collection', k)]_vars

\* exists(k) on a record whose expireAt is in the past and which is still
\* in the collection: true.
C13_Witness ==
  /\ last.op = "exists"
  /\ last.f = 0
  /\ \E doc \in last.pre : HasExpireAt(doc) /\ doc.expireAt < last.at
  /\ last.result = 1

----------------------------------------------------------------------------
(* C14: get(k) on a value record whose expireAt has passed returns         *)
(* undefined, also while the reaper has not yet deleted the record.        *)

C14_ExpiredIsAbsent ==
  [][\A k \in AllKeys :
       (/\ CallOf("get")
        /\ last'.key = k
        /\ \E doc \in DocAt(collection, _getValueKey(k)) :
             HasExpireAt(doc) /\ doc.expireAt < now)
         => last'.result = undefined]_vars

----------------------------------------------------------------------------
(* C15: a raw key or reference name of at most 200 characters, 200         *)
(* included, is encoded as the namespace prefix followed by the raw string *)
(* itself: set(k, ...) stores the value record under 'v:' + k and a        *)
(* reference r is stored under 'r:' + r.                                   *)

C15_ShortKeysVerbatim ==
  [][/\ \A raw \in AllKeys \cup Refs :
          Len(raw) <= 200
            => /\ _getValueKey(raw) = <<"v", ":">> \o raw
               /\ _getReferenceKey(raw) = <<"r", ":">> \o raw
     /\ \A k \in AllKeys :
          (CallOf("set") /\ last'.key = k /\ last'.f # 1)
            => /\ Len(k) <= 200
                    => /\ (<<"v", ":">> \o k) \in DOMAIN collection'
                       /\ collection'[<<"v", ":">> \o k].value
                            = lastSet'[k].value
               /\ last'.f = 0
                    => \A r \in lastSet'[k].refs :
                         Len(r) <= 200
                           => k \in Listed(collection', <<"r", ":">> \o r)]_vars

\* set(k, v, ttl, [k]) for a string k of exactly 200 characters: the value
\* and the reference record are stored under the prefixed raw string.
C15_Witness ==
  /\ last.op = "set"
  /\ last.key = EdgeStr
  /\ Len(EdgeStr) = 200
  /\ lastSet[EdgeStr].indexed
  /\ lastSet[EdgeStr].refs = {EdgeStr}
  /\ (<<"v", ":">> \o EdgeStr) \in DOMAIN collection
  /\ EdgeStr \in Listed(collection, <<"r", ":">> \o EdgeStr)

----------------------------------------------------------------------------
(* C16: for a raw key k of more than 200 characters every operation (set,  *)
(* get, exists, getTTL, refresh, remove) works on one and the same id, the *)
(* value prefix followed by a digest of 64 characters: a set(k, v) adds no *)
(* second value record for k, get(k) and exists(k) after it return v and   *)
(* true, and the other operations read or change that record and no other  *)
(* value record.                                                           *)

ValueIds(c) == {id \in DOMAIN c : IsValueId(id)}

C16_LongKeyOneId ==
  [][\A k \in AllKeys :
       Len(k) > 200
         => LET id == _getValueKey(k)
            IN  /\ IsPrefixOf(<<"v", ":">>, id) /\ Len(id) = 2 + 64
                /\ (CallOf("set") /\ last'.key = k /\ last'.outcome = "returned")
                     => /\ ValueIds(collection') = ValueIds(collection) \cup {id}
                        /\ get(collection', k) = lastSet'[k].value
                        /\ exists(collection', k)
                        /\ lastSet'[k].ttl > 0
                             => getTTL(collection', k, now') = lastSet'[k].ttl
                        /\ ValueIds(remove(collection', k, 0).c)
                             = ValueIds(collection) \ {id}
                        /\ get(refresh(collection', k, 0, now', 0).c, k)
                             = lastSet'[k].value
                /\ (last'.key = k /\ steps' = steps + 1)
                     => \A other \in ValueIds(collection) \cup ValueIds(collection') :
                          other # id
                            => DocAt(collection', other) = DocAt(collection, other)
                /\ (CallOf("get") /\ last'.key = k /\ id \in DOMAIN collection)
                     => last'.result = collection[id].value
                /\ (CallOf("exists") /\ last'.key = k /\ id \in DOMAIN collection)
                     => last'.result = 1
                /\ (CallOf("remove") /\ last'.key = k)
                     => id \notin DOMAIN collection']_vars

\* Two set calls on the long key with different payloads, then get: one
\* value record, holding the second payload, which get returned.
C16_Witness ==
  /\ last.op = "get"
  /\ last.key = LongStr
  /\ steps = 3
  /\ lastSet[LongStr].step = 1
  /\ lastSet[LongStr].value = 2
  /\ \E doc \in last.pre : doc.value = 2
  /\ last.result = 2
  /\ ValueIds(collection) = {_getValueKey(LongStr)}

----------------------------------------------------------------------------
(* C17: no value id equals a reference id.  Every record the storage holds *)
(* is a value record under the value prefix or a reference record under    *)
(* the reference prefix; set(x, v, ttl, [x]), with one string as key and   *)
(* as reference name, produces two records; and neither the lookup of a    *)
(* reference nor the lookup of a pattern selects the id of a value record. *)

\* The ids the lookup of an entry of invalidate selects in c
LookedUp(c, e) ==
  IF "*" \in Range(e) THEN find(c, regexPattern(e))
                      ELSE {_getReferenceKey(e)} \cap DOMAIN c

C17_StoredApart(c) ==
  \A id \in DOMAIN c \ {OtherId} :
    \/ /\ IsValueId(id) /\ ~IsReferenceId(id)
       /\ "value" \in DOMAIN c[id] /\ "keys" \notin DOMAIN c[id]
    \/ /\ IsReferenceId(id) /\ ~IsValueId(id)
       /\ "keys" \in DOMAIN c[id] /\ "value" \notin DOMAIN c[id]

C17_NamespacesDisjoint ==
  [][/\ \A k \in AllKeys, r \in Refs \cup {EdgeStr} :
          _getValueKey(k) # _getReferenceKey(r)
     /\ C17_StoredApart(collection')
     /\ \A x \in AllKeys :
          (/\ CallOf("set")
           /\ last'.key = x
           /\ last'.f = 0
           /\ x \in lastSet'[x].refs)
            => /\ _getValueKey(x) # _getReferenceKey(x)
               /\ _getValueKey(x) \in DOMAIN collection'
               /\ _getReferenceKey(x) \in DOMAIN collection'
               /\ get(collection', x) = lastSet'[x].value
               /\ x \in Listed(collection', _getReferenceKey(x))
     /\ \A e \in Refs \cup Patterns \cup {EdgeStr} :
          \A id \in LookedUp(collection', e) : ~IsValueId(id)]_vars

\* set(x, v, ttl, [x]) for the long string x: a value record and a
\* reference record, and the pattern '*' selects the reference record only.
C17_Witness ==
  /\ last.op = "set"
  /\ last.key = LongStr
  /\ lastSet[LongStr].indexed
  /\ LongStr \in lastSet[LongStr].refs
  /\ _getValueKey(LongStr) \in DOMAIN collection
  /\ _getReferenceKey(LongStr) \in DOMAIN collection
  /\ LookedUp(collection, <<"*">>) = {_getReferenceKey(LongStr)}

----------------------------------------------------------------------------
(* C18: when the value write of set(k, v, ttl, refs) fails, set raises the *)
(* failure to the caller and leaves the store as it was: the previous      *)
(* value record of k is kept, and no reference record is created or        *)
(* modified.                                                               *)

C18_ValueWriteFailure ==
  [][\A k \in AllKeys :
       (CallOf("set") /\ last'.key = k /\ last'.f = 1)
         => /\ last'.outcome = "raised"
            /\ collection' = collection
            /\ DocAt(collection', _getValueKey(k)) = last'.pre]_vars

\* A set whose value write failed, on a key that had a value record, in a
\* storage without a logger: raised, and the record is the one from before.
C18_Witness ==
  /\ last.op = "set"
  /\ last.f = 1
  /\ last.outcome = "raised"
  /\ ~log
  /\ last.pre # {}
  /\ DocAt(collection, _getValueKey(last.key)) = last.pre

----------------------------------------------------------------------------
(* C19: when the value write of set(k, v, ttl, refs) succeeds and the      *)
(* reference writes fail, set returns without raising, the value write     *)
(* stays, and get(k) is v and exists(k) is true afterwards.                *)

C19_IndexFailureKeepsValue ==
  [][\A k \in AllKeys :
       (CallOf("set") /\ last'.key = k /\ last'.f = 2)
         => /\ last'.outcome = "returned"
            /\ lastSet'[k].step = steps
            /\ get(collection', k) = lastSet'[k].value
            /\ exists(collection', k)
            /\ collection'[_getValueKey(k)]
                 = ValueDoc(lastSet'[k].value, now,
                            _getExpirationDate(lastSet'[k].ttl, now))]_vars

\* A set whose reference write failed: it returned, the value is stored and
\* the reference record does not list the key.
C19_Witness ==
  /\ last.op = "set"
  /\ last.f = 2
  /\ last.outcome = "returned"
  /\ ~lastSet[last.key].indexed
  /\ get(collection, last.key) = lastSet[last.key].value
  /\ exists(collection, last.key)
  /\ \E r \in lastSet[last.key].refs :
       last.key \notin Listed(collection, _getReferenceKey(r))

----------------------------------------------------------------------------
(* C20: on a backend failure a read does not raise and degrades to a miss, *)
(* with or without a logger: get returns undefined, getTTL returns 0 and   *)
(* exists returns false, and the store is unchanged.                       *)

C20_ReadsDegrade ==
  [][(/\ steps' = steps + 1
      /\ last'.op \in {"get", "getTTL", "exists"}
      /\ last'.f = 1)
       => /\ last'.outcome = "returned"
          /\ last'.op = "get" => last'.result = undefined
          /\ last'.op = "getTTL" => last'.result = 0
          /\ last'.op = "exists" => last'.result = 0
          /\ collection' = collection]_vars

\* A get whose findOne failed, of a key whose value record is in the
\* store, in a storage without a logger: it returned undefined.
C20_Witness ==
  /\ last.op = "get"
  /\ last.f = 1
  /\ ~log
  /\ last.pre # {}
  /\ last.outcome = "returned"
  /\ last.result = undefined
  /\ DocAt(collection, _getValueKey(last.key)) = last.pre

----------------------------------------------------------------------------
(* C23: constructing the storage with neither a collection nor a db handle *)
(* fails at once with an error, before any backend call, and gives no      *)
(* usable instance; with a collection, or with a db handle, construction   *)
(* succeeds.                                                               *)

C23_HandleRequired ==
  /\ \A options \in Options :
       LET made == constructor(options)
       IN  /\ (~options.collection /\ ~options.db)
                => ~made.usable /\ ~made.ttlIndex
           /\ (options.collection \/ options.db) => made.usable
  /\ ~instance.usable
       => /\ instance.handle = "none"
          /\ ~instance.ttlIndex
          /\ steps = 0
          /\ collection = [id \in {OtherId} |-> OtherDoc]
  /\ instance.usable => instance.handle \in {"collection", "db"}

\* A storage constructed with a db handle only has served a call.
C23_Witness ==
  /\ instance.usable
  /\ instance.handle = "db"
  /\ steps > 0
  /\ last.op = "set"
  /\ last.outcome = "returned"
  /\ get(collection, last.key) = lastSet[last.key].value

----------------------------------------------------------------------------
(* C26: whenever a value record is in the store whose most recent set      *)
(* listed reference r, with the reference writes applied, and no           *)
(* invalidate, remove of the key or clear has run since, the reference     *)
(* record of r is in the store and lists the key, so that invalidate(r)    *)
(* removes the value; also after sets that tag r with other TTLs and after *)
(* the reaper has deleted records whose expireAt has passed.               *)

\* The most recent set of k listed r, its reference writes were applied,
\* and the value record of k is in c.
C26_Tagged(c, ls, k, r) ==
  /\ ls[k].called /\ ls[k].indexed
  /\ r \in ls[k].refs
  /\ _getValueKey(k) \in DOMAIN c

C26_TaggedStaysIndexed ==
  [][\A k \in AllKeys, r \in Refs :
       (/\ C26_Tagged(collection', lastSet', k, r)
        /\ \/ CallOf("set") /\ last'.key = k
           \/ k \in Listed(collection, _getReferenceKey(r))
        /\ ~CallOf("invalidate") /\ ~CallOf("remove") /\ ~CallOf("clear"))
         => /\ k \in Listed(collection', _getReferenceKey(r))
            /\ get(invalidate(collection', Single(r), 0, 0).c, k)
                 = undefined]_vars

----------------------------------------------------------------------------
(* C27: when the lookup or the delete of the value records fails during    *)
(* invalidate(r), for a reference or a pattern, invalidate returns without *)
(* raising and the reference records it resolved are unchanged, so that a  *)
(* later invalidate(r) on a healthy backend removes the listed values.     *)

C27_FailedInvalidateKeepsIndex ==
  [][(/\ CallOf("invalidate")
      /\ ~last'.arg.isArray
      /\ last'.f \in {1, 2})
       => LET e == last'.arg.str
              resolved == SelectedBy(collection, e)
          IN  /\ last'.outcome = "returned"
              /\ \A id \in resolved :
                   DocAt(collection', id) = DocAt(collection, id)
              /\ \A id \in resolved :
                   \A k \in Listed(collection, id) :
                     get(invalidate(collection', last'.arg, 0, 0).c, k)
                       = undefined]_vars

\* An invalidate(r) whose delete of the values failed, in a storage
\* without a logger: the reference record still lists the key, whose value
\* is still in the store.
C27_Witness ==
  /\ last.op = "invalidate"
  /\ ~last.arg.isArray
  /\ last.f = 2
  /\ ~log
  /\ last.outcome = "returned"
  /\ \E id \in SelectedBy(collection, last.arg.str) :
       \E k \in Listed(collection, id) : exists(collection, k)

----------------------------------------------------------------------------
(* C28: invalidate(r) removes a value record only if the most recent set   *)
(* of its key listed r: a value whose key was once set with r and was      *)
(* later set again without r, or removed and set again without r, is left  *)
(* in place by a later invalidate(r).                                      *)

C28_OnlyCurrentTags ==
  [][(/\ CallOf("invalidate")
      /\ ~last'.arg.isArray
      /\ "*" \notin Range(last'.arg.str)
      /\ last'.f = 0)
       => \A k \in AllKeys :
            (/\ lastSet[k].called
             /\ _getValueKey(k) \in DOMAIN collection
             /\ _getValueKey(k) \notin DOMAIN collection')
              => last'.arg.str \in lastSet[k].refs]_vars

----------------------------------------------------------------------------
(* C29: the expireAt of a reference record is that of the last writer, not *)
(* a minimum or a maximum: after a set that tags r with a ttl > 0 it is    *)
(* the time of that set + ttl, also when this is earlier than the expireAt *)
(* stored before; createdAt is written only when the record is created.    *)

C29_LastWriterWins ==
  [][\A k \in AllKeys :
       (CallOf("set") /\ last'.key = k /\ last'.f = 0)
         => \A r \in lastSet'[k].refs :
              LET id == _getReferenceKey(r)
              IN  /\ id \in DOMAIN collection'
                  /\ lastSet'[k].ttl > 0
                       => /\ HasExpireAt(collection'[id])
                          /\ collection'[id].expireAt
                               = now + lastSet'[k].ttl * 1000
                  /\ collection'[id].createdAt
                       = IF id \in DOMAIN collection
                           THEN collection[id].createdAt ELSE now]_vars

\* Two sets tagging the same reference, the second one later and with the
\* shorter ttl: the record's expireAt is the second one's and earlier than
\* the first one's, its createdAt the time of the first.
C29_Witness ==
  /\ last.op = "set"
  /\ last.key = LongStr
  /\ lastSet[KeyA].called /\ lastSet[KeyA].ttl = 2 /\ lastSet[KeyA].at = 0
  /\ lastSet[KeyA].refs = {RefX12}
  /\ lastSet[LongStr].ttl = 1 /\ lastSet[LongStr].at = 750
  /\ lastSet[LongStr].refs = {RefX12}
  /\ lastSet[LongStr].step > lastSet[KeyA].step
  /\ _getReferenceKey(RefX12) \in DOMAIN collection
  /\ collection[_getReferenceKey(RefX12)].expireAt = 1750
  /\ collection[_getReferenceKey(RefX12)].createdAt = 0

\* The calls of the concurrent callers that are sets
SetCalls == {q \in Procs : inflight[q].op = "set"}

\* C21: when concurrent sets tag one reference with different keys and
\* nothing invalidates, once all the calls have completed the reference
\* record lists the key of every one of them: no addition is lost.
C21_NoAdditionLost ==
  (\A q \in Procs : inflight[q].op \in {"idle", "set"} /\ ~InFlight(q))
    => \A q \in SetCalls : \A reference \in inflight[q].refs :
         inflight[q].key \in Listed(collection, _getReferenceKey(reference))

C21_Witness ==
  /\ \A q \in Procs : inflight[q].op = "set" /\ inflight[q].pc = "done"
                        /\ inflight[q].overlapped
  /\ {inflight[q].key : q \in Procs} = {KeyA, LongStr}
  /\ Listed(collection, _getReferenceKey(RefX12)) = {KeyA, LongStr}

\* C22: whatever the interleaving of concurrent sets on one key, the value
\* record is as a whole the document of one of the calls that has written:
\* its payload and its expireAt, or the absence of expireAt, are that call's.
C22_WholeDocument ==
  \A key \in {KeyA, LongStr} :
    _getValueKey(key) \in DOMAIN collection =>
      \E q \in SetCalls :
        LET doc == collection[_getValueKey(key)]
            expireAt == _getExpirationDate(inflight[q].ttl, doc.createdAt)
        IN  /\ inflight[q].key = key
            /\ inflight[q].pc # "replaceOne"
            /\ doc.value = inflight[q].value
            /\ HasExpireAt(doc) <=> expireAt # null
            /\ HasExpireAt(doc) => doc.expireAt = expireAt

C22_Witness ==
  \E q, o \in SetCalls :
    /\ inflight[q].key = KeyA /\ inflight[o].key = KeyA
    /\ inflight[q].ttl = 1 /\ inflight[o].ttl = 0
    /\ inflight[q].pc = "done" /\ inflight[o].pc = "done"
    /\ inflight[q].overlapped /\ inflight[o].overlapped
    /\ _getValueKey(KeyA) \in DOMAIN collection
    /\ ~HasExpireAt(collection[_getValueKey(KeyA)])
    /\ collection[_getValueKey(KeyA)].value = inflight[o].value

\* C30: the key list of a reference record never holds a key twice, however
\* often and however concurrently the key is set with the reference, and a
\* step that keeps the record keeps every key it lists.
C30_KeysAreASet ==
  [][\A id \in DOMAIN collection' :
       "keys" \in DOMAIN collection'[id] =>
         /\ Cardinality(Range(collection'[id].keys))
              = Len(collection'[id].keys)
         /\ Listed(collection, id) \subseteq Listed(collection', id)]_vars

C30_Witness ==
  /\ \E q, o \in SetCalls :
       /\ q # o
       /\ inflight[q].key = KeyA /\ inflight[o].key = KeyA
       /\ inflight[q].pc = "done" /\ inflight[o].pc = "done"
       /\ inflight[q].overlapped /\ inflight[o].overlapped
  /\ \A q \in Procs : inflight[q].op = "set"
  /\ _getReferenceKey(RefX12) \in DOMAIN collection
  /\ collection[_getReferenceKey(RefX12)].keys = <<KeyA>>

\* C24: an invalidation that no other call overlaps deletes the values
\* before the reference records: after each of its deletes, a reference
\* record it resolved is absent only if every value it listed is absent.
C24_ValuesBeforeReferences ==
  [][\A q \in Procs :
       (/\ inflight[q].op = "invalidate"
        /\ inflight[q].pc \in {"deleteValues", "deleteReferences"}
        /\ inflight'[q].pc # inflight[q].pc
        /\ ~inflight'[q].overlapped)
         => \A id \in inflight[q].ids :
              id \notin DOMAIN collection' =>
                \A key \in inflight[q].keys :
                  _getValueKey(key) \notin DOMAIN collection']_vars

C24_Witness ==
  \E q \in Procs :
    /\ inflight[q].op = "invalidate" /\ inflight[q].pc = "done"
    /\ "*" \in Range(inflight[q].ref)
    /\ ~inflight[q].overlapped
    /\ inflight[q].ids = {_getReferenceKey(RefX12)}
    /\ inflight[q].keys = {KeyA, LongStr}
    /\ _getReferenceKey(RefX12) \notin DOMAIN collection
    /\ _getValueKey(KeyA) \notin DOMAIN collection
    /\ _getValueKey(LongStr) \notin DOMAIN collection

\* C25: a set that tags the reference after invalidate(reference) has looked
\* the record up and that finishes before the invalidation's last delete
\* escapes that pass only: once both are done, and the only other call was
\* over before either began, the value is present only if the reference
\* record lists its key.
C25_EscapesOnePass ==
  \A q, o \in Procs :
    (/\ inflight[q].op = "set" /\ inflight[q].pc = "done"
     /\ inflight[q].within
     /\ inflight[o].op = "invalidate" /\ inflight[o].pc = "done"
     /\ inflight[o].ref = RefX12
     /\ \A n \in Procs \ {q, o} :
          n < q /\ n < o /\ ~inflight[n].overlapped
     /\ _getValueKey(inflight[q].key) \in DOMAIN collection)
      => inflight[q].key \in Listed(collection, _getReferenceKey(RefX12))

----------------------------------------------------------------------------
(* C31: refresh(k, ttl) on a key without a value record returns, creates   *)
(* no record and changes nothing, so exists(k) stays false; on a key with  *)
(* a record it changes the expireAt attribute of that record only: every   *)
(* other attribute of the record and every other record stay as they are.  *)

C31_RefreshFrame ==
  [][\A k \in AllKeys :
       (CallOf("refresh") /\ last'.key = k /\ last'.f = 0)
         => LET id == _getValueKey(k)
            IN  /\ last'.outcome = "returned"
                /\ id \notin DOMAIN collection
                     => /\ collection' = collection
                        /\ ~exists(collection', k)
                /\ id \in DOMAIN collection
                     => /\ id \in DOMAIN collection'
                        /\ DOMAIN collection'[id] \ {"expireAt"}
                             = DOMAIN collection[id] \ {"expireAt"}
                        /\ \A field \in DOMAIN collection[id] \ {"expireAt"} :
                             collection'[id][field] = collection[id][field]
                        /\ SameExcept(collection, collection', {id})]_vars

\* set(a) with a reference, then refresh(long key, ttl > 0): the long key
\* has no record before or after, the records of a are as set() left them.
C31_Witness ==
  /\ last.op = "refresh"
  /\ last.key = LongStr
  /\ last.result > 0
  /\ last.pre = {}
  /\ ~exists(collection, LongStr)
  /\ lastSet[KeyA].called /\ lastSet[KeyA].refs = {RefX12}
  /\ get(collection, KeyA) = lastSet[KeyA].value
  /\ Listed(collection, _getReferenceKey(RefX12)) = {KeyA}
  /\ DOMAIN collection
       = {OtherId, _getValueKey(KeyA), _getReferenceKey(RefX12)}

----------------------------------------------------------------------------
(* C32: a wildcard pattern p is matched from the start of the prefixed     *)
(* reference id and not to its end: invalidate(p) removes every reference  *)
(* record whose id starts with a match of the prefix followed by p, also   *)
(* when characters follow the match, with the values of the keys it lists; *)
(* a character of p other than '*' matches itself only, so the reference   *)
(* records whose id does not start with such a match are left as they are. *)

C32_AnchoredAtStartOnly ==
  [][(/\ CallOf("invalidate")
      /\ ~last'.arg.isArray
      /\ "*" \in Range(last'.arg.str)
      /\ last'.f = 0)
       => LET p == last'.arg.str
              stored == {id \in DOMAIN collection : IsReferenceId(id)}
              matching == {id \in stored : GlobPrefix(referencePrefix \o p, id)}
          IN  /\ \A id \in matching :
                   /\ id \notin DOMAIN collection'
                   /\ \A k \in Listed(collection, id) :
                        _getValueKey(k) \notin DOMAIN collection'
              /\ \A id \in stored \ matching :
                   DocAt(collection', id) = DocAt(collection, id)]_vars

\* set(a, ['x.2']); set(long key, ['x12']); invalidate('*.'): 'x.2' starts
\* with a match and has a character after it, 'x12' has no '.'.
C32_Witness ==
  /\ last.op = "invalidate"
  /\ last.arg = Single(<<"*", ".">>)
  /\ steps = 3
  /\ lastSet[KeyA].called /\ lastSet[KeyA].step = 0
  /\ lastSet[KeyA].refs = {RefDot}
  /\ lastSet[LongStr].called /\ lastSet[LongStr].step = 1
  /\ lastSet[LongStr].refs = {RefX12}
  /\ get(collection, KeyA) = undefined
  /\ _getReferenceKey(RefDot) \notin DOMAIN collection
  /\ get(collection, LongStr) = lastSet[LongStr].value
  /\ Listed(collection, _getReferenceKey(RefX12)) = {LongStr}

----------------------------------------------------------------------------
(* C33: a reference record lists the raw keys, and an exact invalidation   *)
(* encodes each listed key again to find its value record: after a set     *)
(* the record of each of its references lists the key as it was passed;    *)
(* the value of a key longer than 200 characters tagged with r, and the    *)
(* value of a key tagged with a reference name longer than 200 characters, *)
(* are gone after invalidate of that name.                                 *)

C33_RawKeysReencoded ==
  [][/\ \A k \in Keys :
          (CallOf("set") /\ last'.key = k /\ last'.f = 0)
            => \A r \in lastSet'[k].refs :
                 k \in Listed(collection', _getReferenceKey(r))
     /\ \A k \in Keys, r \in Refs :
          (/\ CallOf("invalidate")
           /\ last'.arg = Single(r)
           /\ last'.f = 0
           /\ Len(k) > maxKeyLength \/ Len(r) > maxKeyLength
           /\ lastSet[k].called
           /\ r \in lastSet[k].refs
           /\ k \in Listed(collection, _getReferenceKey(r))
           /\ _getValueKey(k) \in DOMAIN collection)
            => /\ _getValueKey(k) \notin DOMAIN collection'
               /\ get(collection', k) = undefined]_vars

\* set(long key, ['x12']); set(a, [long reference]); invalidate('x12'): the
\* long key's value is gone, a and the long reference's record stay.
C33_Witness ==
  /\ last.op = "invalidate"
  /\ last.arg = Single(RefX12)
  /\ steps = 3
  /\ lastSet[LongStr].called /\ lastSet[LongStr].step = 0
  /\ lastSet[LongStr].refs = {RefX12}
  /\ lastSet[KeyA].called /\ lastSet[KeyA].step = 1
  /\ lastSet[KeyA].refs = {LongStr}
  /\ _getValueKey(LongStr) \notin DOMAIN collection
  /\ _getReferenceKey(RefX12) \notin DOMAIN collection
  /\ Listed(collection, _getReferenceKey(LongStr)) = {KeyA}
  /\ get(collection, KeyA) = lastSet[KeyA].value

----------------------------------------------------------------------------
(* C34: distinct raw keys never share a value record: a set or a remove of *)
(* a key k2 leaves the value record of every other key k1, and what        *)
(* get(k1) returns, as they were, also when one of the two is longer than  *)
(* 200 characters and the other is spelled like its digest.                *)

C34_DistinctKeysApart ==
  [][\A k1, k2 \in Keys :
       (/\ k1 # k2
        /\ CallOf("set") \/ CallOf("remove")
        /\ last'.key = k2
        /\ last'.f = 0)
         => /\ DocAt(collection', _getValueKey(k1))
                 = DocAt(collection, _getValueKey(k1))
            /\ get(collection', k1) = get(collection, k1)]_vars

----------------------------------------------------------------------------
(* C35: a clear() that returned has deleted the documents whose id starts  *)
(* with the value prefix or with the reference prefix, and only those:     *)
(* every other document of the collection is there, unchanged.             *)

C35_ClearByPrefix ==
  [][(CallOf("clear") /\ last'.outcome = "returned")
       => /\ DOMAIN collection'
               = {id \in DOMAIN collection :
                    ~IsValueId(id) /\ ~IsReferenceId(id)}
          /\ \A id \in DOMAIN collection' : collection'[id] = collection[id]]_vars

\* Two sets with references, then clear(): the other application's
\* document is all that is left, as it was.
C35_Witness ==
  /\ last.op = "clear"
  /\ last.outcome = "returned"
  /\ steps = 3
  /\ lastSet[KeyA].called /\ lastSet[KeyA].refs # {}
  /\ lastSet[LongStr].called /\ lastSet[LongStr].refs # {}
  /\ collection = [id \in {OtherId} |-> OtherDoc]

----------------------------------------------------------------------------
(* C36: a backend failure during clear() is raised to the caller and       *)
(* leaves the store unchanged; a backend failure during remove, refresh or *)
(* invalidate is swallowed: the call returns and the store is unchanged.   *)

\* As the claim has it: the store is unchanged after each of the four.
C36_FailureLeavesStore ==
  [][(steps' = steps + 1 /\ last'.f # 0)
       => /\ last'.op = "clear"
               => last'.outcome = "raised" /\ collection' = collection
          /\ last'.op \in {"remove", "refresh", "invalidate"}
               => last'.outcome = "returned" /\ collection' = collection]_vars

\* C36 as amended: clear raises and remove, refresh and invalidate return,
\* and nothing that was done before the failing backend call is undone.
\* After clear, remove and refresh, and after an invalidate of one entry
\* whose lookup or delete of the values failed, the store is unchanged;
\* when the delete of the reference record(s) failed, the values the
\* resolved records list are deleted and every other document is as it was;
\* an invalidate of a list only deletes documents.
C36_FailureUndoesNothing ==
  [][(steps' = steps + 1 /\ last'.f # 0)
       => /\ last'.op = "clear"
               => last'.outcome = "raised" /\ collection' = collection
          /\ last'.op \in {"remove", "refresh"}
               => last'.outcome = "returned" /\ collection' = collection
          /\ last'.op = "invalidate"
               => /\ last'.outcome = "returned"
                  /\ DOMAIN collection' \subseteq DOMAIN collection
                  /\ \A id \in DOMAIN collection' :
                       collection'[id] = collection[id]
                  /\ (~last'.arg.isArray /\ last'.f \in {1, 2})
                       => collection' = collection
                  /\ (~last'.arg.isArray /\ last'.f = 3)
                       => LET resolved == SelectedBy(collection, last'.arg.str)
                              values ==
                                {_getValueKey(k) :
                                   k \in UNION {Listed(collection, id) :
                                                  id \in resolved}}
                          IN  DOMAIN collection' = DOMAIN collection \ values]_vars

\* An invalidate(r) whose delete of the reference record failed, in a
\* storage without a logger: it returned, the value is gone and the
\* reference record still lists its key.
C36_Witness ==
  /\ last.op = "invalidate"
  /\ last.arg = Single(EdgeStr)
  /\ last.f = 3
  /\ ~log
  /\ last.outcome = "returned"
  /\ \E k \in Listed(collection, _getReferenceKey(EdgeStr)) :
       /\ lastSet[k].called
       /\ _getValueKey(k) \notin DOMAIN collection

TypeOK ==
  /\ DOMAIN collection \subseteq AllIds
  /\ now \in 0..MaxNow
  /\ steps \in 0..MaxSteps
  /\ faults \in 0..MaxFaults

====
